---- MODULE Spec2Model ----
(***************************************************************************)
(* Flask-FlatPages: the page cache (FlatPages), the Page record and the    *)
(* query engine (PageList.order_by / PageList.filter, filters.py).         *)
(*                                                                         *)
(* Text is modelled as a sequence of symbols.  A symbol is the newline     *)
(* "\n", a whitespace character, or an opaque run of characters holding    *)
(* at least one non-whitespace character.  File names, extensions, paths   *)
(* and string metadata values are sequences of one-character strings.      *)
(***************************************************************************)
EXTENDS Integers, Sequences, FiniteSets, TLC

VARIABLES
    fs,          \* the directory tree: full file name -> <<>> or <<mtime, text>>
    file_cache,  \* FlatPages._file_cache: full file name -> <<>> or <<page, mtime>>
    built,       \* whether '_pages' is in the instance __dict__ (cached_property)
    pages,       \* the cached value of FlatPages._pages: path -> Page
    nextId,      \* identity of the next Page object constructed
    op,          \* the last operation and its arguments
    ret,         \* what the last operation returned or raised
    loads,       \* the _load_file calls made by the last operation, in order
    walked,      \* whether the last operation walked the directory tree
    changes,     \* how many times the environment has changed the tree
    forgotten,   \* <<>>, or <<keys>>: the keys of the mapping the last reload discarded
    plist,       \* a PageList under query
    qry,         \* the input of the calls under study: filter keyword arguments,
                 \* a sort key, or a text to parse
    hist,        \* the results of the calls made on that input: call -> result
    pc,          \* where each thread stands in reading self._pages: "idle",
                 \* "func" (found '_pages' missing, the walk to come), or
                 \* "stale" (the same, a reload having come in between)
    walks        \* how many walks, begun and ended since the last reload, have
                 \* built the mapping

vars == <<fs, file_cache, built, pages, nextId, op, ret, loads, walked,
          changes, forgotten, plist, qry, hist, pc, walks>>

(***************************************************************************)
(* Bounds of the model.                                                    *)
(***************************************************************************)
MaxChanges == 2
MaxLen == 3
MaxText == 5
MaxThreads == 2

(***************************************************************************)
(* Generic sequence helpers.                                               *)
(***************************************************************************)
Range(s) == {s[i] : i \in 1..Len(s)}

Reverse(s) == [i \in 1..Len(s) |-> s[Len(s) + 1 - i]]

Perms(S) == {p \in [1..Cardinality(S) -> S] : Range(p) = S}

RECURSIVE Join(_, _)
Join(parts, sep) ==
    IF parts = <<>> THEN <<>>
    ELSE IF Len(parts) = 1 THEN parts[1]
    ELSE parts[1] \o <<sep>> \o Join(Tail(parts), sep)

RECURSIVE Split(_, _)
Split(s, sep) ==
    IF \A i \in 1..Len(s) : s[i] # sep THEN <<s>>
    ELSE LET i == CHOOSE j \in 1..Len(s) :
                      s[j] = sep /\ \A k \in 1..(j - 1) : s[k] # sep
         IN  <<SubSeq(s, 1, i - 1)>> \o Split(SubSeq(s, i + 1, Len(s)), sep)

(***************************************************************************)
(* Python values: one record shape for every value, so that values of      *)
(* different Python types can be compared.                                 *)
(***************************************************************************)
Val(t, i, s, l) == [t |-> t, i |-> i, s |-> s, l |-> l]
PyNone == Val("NoneType", 0, <<>>, <<>>)
PyInt(n) == Val("int", n, <<>>, <<>>)
PyBool(b) == Val("bool", IF b THEN 1 ELSE 0, <<>>, <<>>)
PyStr(s) == Val("str", 0, s, <<>>)
PyList(l) == Val("list", 0, <<>>, l)
PyDate(n) == Val("date", n, <<>>, <<>>)

IsNum(x) == x.t \in {"int", "bool"}

\* x == y
PyEq(x, y) == IF IsNum(x) /\ IsNum(y) THEN x.i = y.i ELSE x = y

\* bool(x)
PyTruth(x) ==
    CASE x.t = "NoneType" -> FALSE
      [] IsNum(x) -> x.i # 0
      [] x.t = "str" -> x.s # <<>>
      [] x.t = "list" -> x.l # <<>>
      [] OTHER -> TRUE

Ok(v) == [k |-> "ok", v |-> v]
Raise(exc, msg, arg, typ) ==
    [k |-> "raise", exc |-> exc, msg |-> msg, arg |-> arg, typ |-> typ]

LowerChar(c) ==
    CASE c = "A" -> "a"
      [] c = "B" -> "b"
      [] c = "Y" -> "y"
      [] OTHER -> c

\* str.lower
Lower(s) == [i \in 1..Len(s) |-> LowerChar(s[i])]

\* needle in haystack, both strings
Substr(needle, hay) ==
    \E i \in 0..(Len(hay) - Len(needle)) :
        SubSeq(hay, i + 1, i + Len(needle)) = needle

\* x in seq, seq a list
PyIn(x, seq) == \E i \in 1..Len(seq) : PyEq(seq[i], x)

(***************************************************************************)
(* yaml.safe_load, an external function, as a table over the metadata      *)
(* blocks the model uses.  A decoded value is [t, truthy, d]: its Python   *)
(* type name, its truth value, and the mapping when it is a dict.          *)
(***************************************************************************)
WS == {" ", "\t"}

YamlEntry(sym) ==
    CASE sym = "date: 0001-01-01" -> <<<<"date">>, PyDate(1)>>
      [] sym = "date: 0001-01-02" -> <<<<"date">>, PyDate(2)>>
      [] sym = "date: 0001-01-03" -> <<<<"date">>, PyDate(3)>>
      [] sym = "title: a" -> <<<<"title">>, PyStr(<<"a">>)>>
      [] sym = "title: A" -> <<<<"title">>, PyStr(<<"A">>)>>
      [] sym = "title: b" -> <<<<"title">>, PyStr(<<"b">>)>>
      [] sym = "title: Ab" -> <<<<"title">>, PyStr(<<"A", "b">>)>>
      [] sym = "tags: [x, Y]" ->
             <<<<"tags">>, PyList(<<PyStr(<<"x">>), PyStr(<<"Y">>)>>)>>
      [] sym = "tags: [1, x]" ->
             <<<<"tags">>, PyList(<<PyInt(1), PyStr(<<"x">>)>>)>>
      [] sym = "tags: 5" -> <<<<"tags">>, PyInt(5)>>
      [] sym = "path: a" -> <<<<"path">>, PyStr(<<"a">>)>>
      [] OTHER -> <<<<sym>>, PyNone>>

YamlLoad(text) ==
    LET Mapping(entries) ==
            [key \in {entries[i][1] : i \in 1..Len(entries)} |->
                entries[CHOOSE i \in 1..Len(entries) :
                            /\ entries[i][1] = key
                            /\ \A j \in (i + 1)..Len(entries) :
                                   entries[j][1] # key][2]]
        Load(content) ==
            IF content = <<>>
            THEN [t |-> "NoneType", truthy |-> FALSE, d |-> <<>>]
            ELSE CASE content[1] = "- 1" -> [t |-> "list", truthy |-> TRUE, d |-> <<>>]
                   [] content[1] = "[]" -> [t |-> "list", truthy |-> FALSE, d |-> <<>>]
                   [] content[1] = "0" -> [t |-> "int", truthy |-> FALSE, d |-> <<>>]
                   [] content[1] = "text" -> [t |-> "str", truthy |-> TRUE, d |-> <<>>]
                   [] OTHER ->
                          [t |-> "dict", truthy |-> TRUE,
                           d |-> Mapping([i \in 1..Len(content) |->
                                             YamlEntry(content[i])])]
    IN  Load(SelectSeq(text, LAMBDA c : c \notin WS \cup {"\n"}))

(***************************************************************************)
(* class Page.  A Page object is [id, path, meta_yaml, body]; id is the    *)
(* object's identity.                                                      *)
(***************************************************************************)
Page(id, path, meta_yaml, body) ==
    [id |-> id, path |-> path, meta_yaml |-> meta_yaml, body |-> body]

\* Page.meta without the isinstance check: any non-dict counts as no metadata.
Page_meta_lenient(page) ==
    LET Checked(meta) ==
            IF ~meta.truthy \/ meta.t # "dict" THEN Ok(<<>>) ELSE Ok(meta.d)
    IN  Checked(YamlLoad(page.meta_yaml))

\* Page.meta: Ok(mapping), or the ValueError naming the path and the type.
Page_meta(page) ==
    LET Checked(meta) ==
            IF ~meta.truthy THEN Ok(<<>>)
            ELSE IF meta.t # "dict"
            THEN Raise("ValueError", "Excpected a dict in metadata", page.path, meta.t)
            ELSE Ok(meta.d)
    IN  Checked(YamlLoad(page.meta_yaml))

\* getattr(page, name): the instance attributes path and body are found by
\* normal lookup; any other name goes to Page.__getattr__, self.meta.get(name).
Page_getattr(page, name) ==
    IF name = <<"path">> THEN Ok(PyStr(page.path))
    ELSE IF name = <<"body">> THEN Ok(PyStr(page.body))
    ELSE LET Get(m) ==
                 IF m.k = "raise" THEN m
                 ELSE Ok(IF name \in DOMAIN m.v THEN m.v[name] ELSE PyNone)
         IN  Get(Page_meta(page))

(***************************************************************************)
(* filters.py.  Each returns Ok(TRUE/FALSE) or the exception it raises.    *)
(***************************************************************************)
\* needle in container, Python's `in` on a value of any type
PyContains(needle, container) ==
    CASE container.t = "list" -> Ok(PyIn(needle, container.l))
      [] container.t = "str" ->
             IF needle.t = "str" THEN Ok(Substr(needle.s, container.s))
             ELSE Raise("TypeError", "'in <string>' requires string", <<>>, needle.t)
      [] OTHER -> Raise("TypeError", "argument is not iterable", <<>>, container.t)

exact(page, field, value) ==
    LET Test(x) == IF x.k = "raise" THEN x ELSE Ok(PyEq(x.v, value))
    IN  Test(Page_getattr(page, field))

isnull(page, field, value) ==
    LET Test(x) ==
            IF x.k = "raise" THEN x
            ELSE Ok(PyEq(PyBool(PyEq(x.v, PyNone)), value))
    IN  Test(Page_getattr(page, field))

contains(page, field, value) ==
    LET Test(x) ==
            IF x.k = "raise" THEN x
            ELSE PyContains(value, IF PyTruth(x.v) THEN x.v ELSE PyList(<<>>))
    IN  Test(Page_getattr(page, field))

in_(page, field, value) ==
    LET Test(x) ==
            IF x.k = "raise" THEN x
            ELSE PyContains(x.v, IF PyTruth(value) THEN value ELSE PyList(<<>>))
    IN  Test(Page_getattr(page, field))

iexact(page, field, value) ==
    LET Test(x) ==
            IF x.k = "raise" THEN x
            ELSE IF x.v.t # "str" \/ value.t # "str" THEN Ok(FALSE)
            ELSE Ok(Lower(x.v.s) = Lower(value.s))
    IN  Test(Page_getattr(page, field))

\* value.lower() in (val.lower() for val in seq), where value is a string:
\* the generator stops at the first match, and a non-string before it raises
\* the AttributeError that icontains turns into False.
RECURSIVE LowerIn(_, _)
LowerIn(needle, seq) ==
    IF seq = <<>> THEN FALSE
    ELSE IF Head(seq).t # "str" THEN FALSE
    ELSE IF Lower(Head(seq).s) = needle THEN TRUE
    ELSE LowerIn(needle, Tail(seq))

icontains(page, field, value) ==
    LET Test(x) ==
            IF x.k = "raise" THEN x
            ELSE IF value.t # "str" THEN Ok(FALSE)
            ELSE IF x.v.t = "str" THEN Ok(Substr(Lower(value.s), Lower(x.v.s)))
            ELSE IF ~PyTruth(x.v) THEN Ok(FALSE)
            ELSE IF x.v.t = "list" THEN Ok(LowerIn(Lower(value.s), x.v.l))
            ELSE Raise("TypeError", "object is not iterable", <<>>, x.v.t)
    IN  Test(Page_getattr(page, field))

\* The callables of the filters module.
FilterNames == {"exact", "isnull", "contains", "in_", "iexact", "icontains"}

\* getattr(filters, cond)(page, field, val)
CallFilter(cond, page, field, val) ==
    IF Len(cond) # 1 \/ cond[1] \notin FilterNames
    THEN Raise("AttributeError", "module has no attribute", cond, "")
    ELSE CASE cond[1] = "exact" -> exact(page, field, val)
           [] cond[1] = "isnull" -> isnull(page, field, val)
           [] cond[1] = "contains" -> contains(page, field, val)
           [] cond[1] = "in_" -> in_(page, field, val)
           [] cond[1] = "iexact" -> iexact(page, field, val)
           [] cond[1] = "icontains" -> icontains(page, field, val)

(***************************************************************************)
(* class PageList.  A PageList is a sequence of Page objects.              *)
(***************************************************************************)
MinOrdinal == 1
MINDATE == PyDate(MinOrdinal)

CharRank(c) ==
    CASE c = "A" -> 65
      [] c = "B" -> 66
      [] c = "Y" -> 89
      [] c = "a" -> 97
      [] c = "b" -> 98
      [] c = "x" -> 120
      [] c = "y" -> 121
      [] OTHER -> 0

RECURSIVE StrLt(_, _)
StrLt(a, b) ==
    IF b = <<>> THEN FALSE
    ELSE IF a = <<>> THEN TRUE
    ELSE IF CharRank(Head(a)) # CharRank(Head(b))
    THEN CharRank(Head(a)) < CharRank(Head(b))
    ELSE StrLt(Tail(a), Tail(b))

\* Python 2 ordering of values of different types: None, then numbers, then
\* the others by type name.
TypeRank(x) ==
    CASE x.t = "NoneType" -> 0
      [] IsNum(x) -> 1
      [] x.t = "list" -> 2
      [] OTHER -> 3

\* a < b for two keys the sort may compare (both dates, or neither)
KeyLt(a, b) ==
    IF a.t = "date" /\ b.t = "date" THEN a.i < b.i
    ELSE IF TypeRank(a) # TypeRank(b) THEN TypeRank(a) < TypeRank(b)
    ELSE CASE IsNum(a) -> a.i < b.i
           [] a.t = "str" -> StrLt(a.s, b.s)
           [] OTHER -> FALSE

\* insert the pair e = <<key, page>> after every pair whose key is not greater
RECURSIVE InsertStable(_, _)
InsertStable(sorted, e) ==
    IF sorted = <<>> THEN <<e>>
    ELSE IF KeyLt(e[1], Head(sorted)[1]) THEN <<e>> \o sorted
    ELSE <<Head(sorted)>> \o InsertStable(Tail(sorted), e)

RECURSIVE StableSort(_)
StableSort(pairs) ==
    IF pairs = <<>> THEN <<>>
    ELSE InsertStable(StableSort(SubSeq(pairs, 1, Len(pairs) - 1)),
                      pairs[Len(pairs)])

\* a descending sort made by reversing the ascending one
Sorted_naive(pairs, rev) ==
    IF rev THEN Reverse(StableSort(pairs)) ELSE StableSort(pairs)

\* sorted(seq, reverse=rev, key=...) on <<key, page>> pairs: a stable sort;
\* with reverse the list is reversed, sorted and reversed again, so that
\* pairs with equal keys keep their original order there too.
Sorted(pairs, rev) ==
    IF rev THEN Reverse(StableSort(Reverse(pairs))) ELSE StableSort(pairs)

\* get_meta of order_by
get_meta(page, key) ==
    LET Get(m) ==
            IF m.k = "raise" THEN m
            ELSE Ok(IF key \in DOMAIN m.v THEN m.v[key] ELSE MINDATE)
    IN  Get(Page_meta(page))

\* PageList.order_by(key): key is a sequence of symbols, "-" being one.
order_by(self, key) ==
    IF key = <<>> THEN Raise("IndexError", "string index out of range", <<>>, "")
    ELSE
    LET rev == key[1] = "-"
        name == IF rev THEN Tail(key) ELSE key
        Second(out) == [i \in 1..Len(out) |-> out[i][2]]
        FirstOf(bad) == CHOOSE i \in bad : \A j \in bad : i <= j
        Sort(keys) ==
            IF \E i \in 1..Len(self) : keys[i].k = "raise"
            THEN keys[FirstOf({i \in 1..Len(self) : keys[i].k = "raise"})]
            ELSE IF \E i, j \in 1..Len(self) :
                        keys[i].v.t = "date" /\ keys[j].v.t # "date"
            THEN Raise("TypeError", "can't compare datetime.date", <<>>, "")
            ELSE Ok(Second(Sorted([i \in 1..Len(self) |-> <<keys[i].v, self[i]>>],
                                  rev)))
    IN  Sort([i \in 1..Len(self) |-> get_meta(self[i], name)])

\* field.split('__', 1) and the choice of the condition: field is a sequence
\* of tokens, "__" being one.  Gives <<field_name, condition>>.
SplitField(field) ==
    IF \A i \in 1..Len(field) : field[i] # "__"
    THEN <<field, <<"exact">>>>
    ELSE LET i == CHOOSE j \in 1..Len(field) :
                      field[j] = "__" /\ \A k \in 1..(j - 1) : field[k] # "__"
             condition == SubSeq(field, i + 1, Len(field))
         IN  <<SubSeq(field, 1, i - 1),
               IF condition = <<"in">> THEN <<"in_">> ELSE condition>>

\* the loop over _filters leaving after its first filter
FilterPage_first(page, filters, negate, filtered) ==
    IF filters = <<>> THEN Ok(filtered)
    ELSE
    LET filt == Head(filters)
        Add(result) ==
            IF result /\ \A i \in 1..Len(filtered) : filtered[i] # page
            THEN Append(filtered, page) ELSE filtered
        Step(r) ==
            IF r.k = "raise"
            THEN IF r.exc \in {"AttributeError", "TypeError"}
                 THEN Raise("ValueError", "Unknown operator", filt[2], "")
                 ELSE r
            ELSE Ok(Add(IF negate THEN ~r.v ELSE r.v))
    IN  Step(CallFilter(filt[2], page, filt[1], filt[3]))

\* the loop over _filters without `if negate: result = not result`
RECURSIVE FilterPage_nonegate(_, _, _, _)
FilterPage_nonegate(page, filters, negate, filtered) ==
    IF filters = <<>> THEN Ok(filtered)
    ELSE
    LET filt == Head(filters)
        Add(result) ==
            IF result /\ \A i \in 1..Len(filtered) : filtered[i] # page
            THEN Append(filtered, page) ELSE filtered
        Step(r) ==
            IF r.k = "raise"
            THEN IF r.exc \in {"AttributeError", "TypeError"}
                 THEN Raise("ValueError", "Unknown operator", filt[2], "")
                 ELSE r
            ELSE FilterPage_nonegate(page, Tail(filters), negate, Add(r.v))
    IN  Step(CallFilter(filt[2], page, filt[1], filt[3]))

\* the loop over _filters with the negation put on the combination: with
\* negate, the page is added when no filter is true
RECURSIVE FilterPage_demorgan(_, _, _, _)
FilterPage_demorgan(page, filters, negate, filtered) ==
    LET Add(result) ==
            IF result /\ \A i \in 1..Len(filtered) : filtered[i] # page
            THEN Append(filtered, page) ELSE filtered
        Step(r) ==
            IF r.k = "raise"
            THEN IF r.exc \in {"AttributeError", "TypeError"}
                 THEN Raise("ValueError", "Unknown operator", Head(filters)[2], "")
                 ELSE r
            ELSE IF negate /\ r.v THEN Ok(filtered)
            ELSE FilterPage_demorgan(page, Tail(filters), negate,
                                     IF negate THEN filtered ELSE Add(r.v))
    IN  IF filters = <<>> THEN Ok(Add(negate))
        ELSE Step(CallFilter(Head(filters)[2], page, Head(filters)[1],
                             Head(filters)[3]))

\* the loop over _filters without the test `page not in filtered`
RECURSIVE FilterPage_nodedupe(_, _, _, _)
FilterPage_nodedupe(page, filters, negate, filtered) ==
    IF filters = <<>> THEN Ok(filtered)
    ELSE
    LET filt == Head(filters)
        Add(result) == IF result THEN Append(filtered, page) ELSE filtered
        Step(r) ==
            IF r.k = "raise"
            THEN IF r.exc \in {"AttributeError", "TypeError"}
                 THEN Raise("ValueError", "Unknown operator", filt[2], "")
                 ELSE r
            ELSE FilterPage_nodedupe(page, Tail(filters), negate,
                                     Add(IF negate THEN ~r.v ELSE r.v))
    IN  Step(CallFilter(filt[2], page, filt[1], filt[3]))

\* the loop over _filters for one page; filtered is the list so far
RECURSIVE FilterPage(_, _, _, _)
FilterPage(page, filters, negate, filtered) ==
    IF filters = <<>> THEN Ok(filtered)
    ELSE
    LET filt == Head(filters)
        Add(result) ==
            IF result /\ \A i \in 1..Len(filtered) : filtered[i] # page
            THEN Append(filtered, page) ELSE filtered
        Step(r) ==
            IF r.k = "raise"
            THEN IF r.exc \in {"AttributeError", "TypeError"}
                 THEN Raise("ValueError", "Unknown operator", filt[2], "")
                 ELSE r
            ELSE FilterPage(page, Tail(filters), negate,
                            Add(IF negate THEN ~r.v ELSE r.v))
    IN  Step(CallFilter(filt[2], page, filt[1], filt[3]))

\* the loop over self
RECURSIVE FilterLoop(_, _, _, _)
FilterLoop(rest, filters, negate, filtered) ==
    IF rest = <<>> THEN Ok(filtered)
    ELSE LET Step(r) ==
                 IF r.k = "raise" THEN r
                 ELSE FilterLoop(Tail(rest), filters, negate, r.v)
         IN  Step(FilterPage(Head(rest), filters, negate, filtered))

\* filter returning every page when it is given no keyword argument
filter_allwhenempty(self, negate, kwargs, korder) ==
    IF korder = <<>> THEN Ok(self)
    ELSE FilterLoop(self,
                    [i \in 1..Len(korder) |->
                        <<SplitField(korder[i])[1], SplitField(korder[i])[2],
                          kwargs[korder[i]]>>],
                    negate, <<>>)

\* PageList.filter(negate, **kwargs): kwargs is a mapping from field keys to
\* values and korder the order in which kwargs.iteritems() yields its keys.
filter(self, negate, kwargs, korder) ==
    FilterLoop(self,
               [i \in 1..Len(korder) |->
                   <<SplitField(korder[i])[1], SplitField(korder[i])[2],
                     kwargs[korder[i]]>>],
               negate, <<>>)

\* the threads that use one FlatPages object
Threads == 1..MaxThreads

(***************************************************************************)
(* The directory tree under FlatPages.root.  A full file name is the       *)
(* sequence of its segments below the root; a directory exists when a      *)
(* file lies below it.                                                     *)
(***************************************************************************)
\* config('extension')
Extension == <<".", "h">>

FA == << <<"a", ".", "h">> >>
FDA == << <<"d", ".", "h">>, <<"a", ".", "h">> >>
FB == << <<"b", ".", "t">> >>
Files == {FA, FDA, FB}

\* every directory or file name of the tree
Names == UNION {Range(f) : f \in Files}

TGood == <<"date: 0001-01-02", "\n", "title: a", "\n", "\n", "Body">>
TList == <<"- 1", "\n", "\n", "Body">>
TBytes == <<"\\xff">>

\* the files the environment writes and removes, and the contents and
\* modification times it gives them; FB is there from the start and stays
Changing == {FA, FDA}

TextsOf(f) == IF f = FA THEN {TGood, TList} ELSE {TGood, TBytes}

MtimesOf(f) == 1..(changes + 1)

\* the orders in which os.listdir may yield the names; none is needed when
\* the mapping is built, since no walk is made then
Orders == IF built THEN {<<>>} ELSE Perms(Names)

Present(fsys, f) == Len(fsys[f]) # 0

IsPrefix(d, f) == Len(f) > Len(d) /\ SubSeq(f, 1, Len(d)) = d

\* os.listdir(directory), as a set
listdir(fsys, directory) ==
    {f[Len(directory) + 1] : f \in {g \in Files : Present(fsys, g) /\ IsPrefix(directory, g)}}

\* os.path.isdir(full_name)
isdir(fsys, full_name) ==
    \E f \in Files : Present(fsys, f) /\ IsPrefix(full_name, f)

\* no test of the extension: every file is taken for a page
endswith_any(name, extension) == Len(name) >= Len(extension)

\* name.endswith(extension)
endswith(name, extension) ==
    /\ Len(name) >= Len(extension)
    /\ SubSeq(name, Len(name) - Len(extension) + 1, Len(name)) = extension

\* fd.read().decode(encoding)
Decode(bytes) ==
    IF \E i \in 1..Len(bytes) : bytes[i] = "\\xff"
    THEN Raise("UnicodeDecodeError", "invalid start byte", <<>>, "")
    ELSE Ok(bytes)

(***************************************************************************)
(* class FlatPages.                                                        *)
(***************************************************************************)
\* unicode.strip(line), as a truth value
strip(line) == \E i \in 1..Len(line) : line[i] \notin WS

\* _parse giving the body every line after the metadata block, the blank
\* line included
parse_keepblank(string, path, id) ==
    LET First(stop) == CHOOSE i \in stop : \A j \in stop : i <= j
        Cut(lines, n) ==
            Page(id, path, Join(SubSeq(lines, 1, n), "\n"),
                 Join(SubSeq(lines, n + 1, Len(lines)), "\n"))
        Take(lines) ==
            Cut(lines,
                IF \A i \in 1..Len(lines) : strip(lines[i]) THEN Len(lines)
                ELSE First({i \in 1..Len(lines) : ~strip(lines[i])}) - 1)
    IN  Take(Split(string, "\n"))

\* FlatPages._parse(string, path); id is the identity of the new Page.
parse(string, path, id) ==
    LET First(stop) == CHOOSE i \in stop : \A j \in stop : i <= j
        \* the lines of the metadata block are lines[1..n]
        Cut(lines, n) ==
            Page(id, path, Join(SubSeq(lines, 1, n), "\n"),
                 Join(SubSeq(lines, n + 2, Len(lines)), "\n"))
        Take(lines) ==
            Cut(lines,
                IF \A i \in 1..Len(lines) : strip(lines[i]) THEN Len(lines)
                ELSE First({i \in 1..Len(lines) : ~strip(lines[i])}) - 1)
    IN  Take(Split(string, "\n"))

NoPage == Page(0, <<>>, <<>>, <<>>)
NoExc == Ok(TRUE)

\* _load_file without the cache test: every call reads and parses
load_file_nocache(st, fsys, path, filename) ==
    LET mtime == fsys[filename][1]
        cached == st.file_cache[filename]
        ev == [filename |-> filename, path |-> path, mtime |-> mtime,
               cached |-> cached, read |-> TRUE, parsed |-> FALSE,
               page |-> NoPage, after |-> cached, exc |-> NoExc]
        Store(page) ==
            [st EXCEPT !.loads = Append(@, [ev EXCEPT !.parsed = TRUE,
                                                     !.page = page,
                                                     !.after = <<page, mtime>>]),
                       !.file_cache = [@ EXCEPT ![filename] = <<page, mtime>>],
                       !.nextId = @ + 1,
                       !.ret = page]
        Load(content) ==
            IF content.k = "raise"
            THEN [st EXCEPT !.loads = Append(@, [ev EXCEPT !.exc = content]),
                            !.exc = content]
            ELSE Store(parse(content.v, path, st.nextId))
    IN  Load(Decode(fsys[filename][2]))

\* _load_file with the cache keyed by the last segment of the filename
load_file_basename(st, fsys, path, filename) ==
    LET mtime == fsys[filename][1]
        key == <<filename[Len(filename)]>>
        cached == st.file_cache[key]
        hit == Len(cached) # 0 /\ cached[2] = mtime
        ev == [filename |-> filename, path |-> path, mtime |-> mtime,
               cached |-> cached, read |-> ~hit, parsed |-> FALSE,
               page |-> NoPage, after |-> cached, exc |-> NoExc]
        Store(page) ==
            [st EXCEPT !.loads = Append(@, [ev EXCEPT !.parsed = TRUE,
                                                     !.page = page,
                                                     !.after = <<page, mtime>>]),
                       !.file_cache = [@ EXCEPT ![key] = <<page, mtime>>],
                       !.nextId = @ + 1,
                       !.ret = page]
        Load(content) ==
            IF content.k = "raise"
            THEN [st EXCEPT !.loads = Append(@, [ev EXCEPT !.exc = content]),
                            !.exc = content]
            ELSE Store(parse(content.v, path, st.nextId))
    IN  IF hit
        THEN [st EXCEPT !.loads = Append(@, [ev EXCEPT !.page = cached[1]]),
                        !.ret = cached[1]]
        ELSE Load(Decode(fsys[filename][2]))

\* _load_file taking any entry of the filename, whatever its mtime
load_file_anymtime(st, fsys, path, filename) ==
    LET mtime == fsys[filename][1]
        cached == st.file_cache[filename]
        hit == Len(cached) # 0
        ev == [filename |-> filename, path |-> path, mtime |-> mtime,
               cached |-> cached, read |-> ~hit, parsed |-> FALSE,
               page |-> NoPage, after |-> cached, exc |-> NoExc]
        Store(page) ==
            [st EXCEPT !.loads = Append(@, [ev EXCEPT !.parsed = TRUE,
                                                     !.page = page,
                                                     !.after = <<page, mtime>>]),
                       !.file_cache = [@ EXCEPT ![filename] = <<page, mtime>>],
                       !.nextId = @ + 1,
                       !.ret = page]
        Load(content) ==
            IF content.k = "raise"
            THEN [st EXCEPT !.loads = Append(@, [ev EXCEPT !.exc = content]),
                            !.exc = content]
            ELSE Store(parse(content.v, path, st.nextId))
    IN  IF hit
        THEN [st EXCEPT !.loads = Append(@, [ev EXCEPT !.page = cached[1]]),
                        !.ret = cached[1]]
        ELSE Load(Decode(fsys[filename][2]))

\* FlatPages._load_file(path, filename).  st is the state of the running
\* build: [pages, file_cache, nextId, loads, exc].  The call appends one
\* record to st.loads: what it observed, what it did and what it returned.
load_file(st, fsys, path, filename) ==
    LET mtime == fsys[filename][1]
        cached == st.file_cache[filename]
        hit == Len(cached) # 0 /\ cached[2] = mtime
        ev == [filename |-> filename, path |-> path, mtime |-> mtime,
               cached |-> cached, read |-> ~hit, parsed |-> FALSE,
               page |-> NoPage, after |-> cached, exc |-> NoExc]
        Store(page) ==
            [st EXCEPT !.loads = Append(@, [ev EXCEPT !.parsed = TRUE,
                                                     !.page = page,
                                                     !.after = <<page, mtime>>]),
                       !.file_cache = [@ EXCEPT ![filename] = <<page, mtime>>],
                       !.nextId = @ + 1,
                       !.ret = page]
        Load(content) ==
            IF content.k = "raise"
            THEN [st EXCEPT !.loads = Append(@, [ev EXCEPT !.exc = content]),
                            !.exc = content]
            ELSE Store(parse(content.v, path, st.nextId))
    IN  IF hit
        THEN [st EXCEPT !.loads = Append(@, [ev EXCEPT !.page = cached[1]]),
                        !.ret = cached[1]]
        ELSE Load(Decode(fsys[filename][2]))

\* _walk(directory, path_prefix) of FlatPages._pages.  The directory and the
\* path_prefix name the same place: the segments below the root.  order is
\* the order in which os.listdir yields names.
RECURSIVE walk_entries(_, _, _, _, _)
walk_entries(st, fsys, order, directory, entries) ==
    IF entries = <<>> \/ st.exc.k = "raise" THEN st
    ELSE
    LET name == Head(entries)
        full_name == Append(directory, name)
        name_without_extension == SubSeq(name, 1, Len(name) - Len(Extension))
        path == Join(Append(directory, name_without_extension), "/")
        \* pages[path] = self._load_file(path, full_name)
        Assign(loaded) ==
            IF loaded.exc.k = "raise" THEN loaded
            ELSE [loaded EXCEPT !.pages = (path :> loaded.ret) @@ @]
    IN  walk_entries(IF isdir(fsys, full_name)
                     THEN walk_entries(st, fsys, order, full_name,
                              SelectSeq(order,
                                        LAMBDA x : x \in listdir(fsys, full_name)))
                     ELSE IF endswith(name, Extension)
                     THEN Assign(load_file(st, fsys, path, full_name))
                     ELSE st,
                     fsys, order, directory, Tail(entries))

walk(st, fsys, order) ==
    walk_entries(st, fsys, order, <<>>,
                 SelectSeq(order, LAMBDA x : x \in listdir(fsys, <<>>)))

\* the walk storing what it has gathered when it raises
pages_fget_partial(order) ==
    LET Left(st) ==
            [r |-> IF st.exc.k = "raise" THEN st.exc ELSE Ok(st.pages),
             built |-> TRUE,
             pages |-> st.pages,
             file_cache |-> st.file_cache, nextId |-> st.nextId,
             loads |-> st.loads, walked |-> TRUE]
    IN  Left(walk([pages |-> <<>>, file_cache |-> file_cache, nextId |-> nextId,
                   loads |-> <<>>, exc |-> NoExc, ret |-> NoPage], fs, order))

\* The function under the cached_property FlatPages._pages: the walk from
\* the root, and what it leaves behind.  Its value is cached only when the
\* walk raised nothing.
\* property_pages is reading self._pages in the current state: the cached
\* value when '_pages' is in __dict__, else the result of the walk.
pages_fget(order) ==
    LET Left(st) ==
            [r |-> IF st.exc.k = "raise" THEN st.exc ELSE Ok(st.pages),
             built |-> st.exc.k # "raise",
             pages |-> IF st.exc.k = "raise" THEN <<>> ELSE st.pages,
             file_cache |-> st.file_cache, nextId |-> st.nextId,
             loads |-> st.loads, walked |-> TRUE]
    IN  Left(walk([pages |-> <<>>, file_cache |-> file_cache, nextId |-> nextId,
                   loads |-> <<>>, exc |-> NoExc, ret |-> NoPage], fs, order))

\* a plain property: the walk is made on every read
property_pages_uncached(order) == pages_fget(order)

property_pages(order) ==
    IF built
    THEN [r |-> Ok(pages), built |-> TRUE, pages |-> pages,
          file_cache |-> file_cache, nextId |-> nextId, loads |-> <<>>,
          walked |-> FALSE]
    ELSE pages_fget(order)

\* the state left by reading FlatPages._pages
Commit(a) ==
    /\ built' = a.built
    /\ pages' = a.pages
    /\ file_cache' = a.file_cache
    /\ nextId' = a.nextId
    /\ loads' = a.loads
    /\ walked' = a.walked
    /\ UNCHANGED <<fs, changes, forgotten, plist, qry, hist, pc, walks>>

\* dict.itervalues(): the values in some order
itervalues(d, vorder) == [i \in 1..Len(vorder) |-> d[vorder[i]]]

\* the paths asked for
GetPaths == {<<"a">>}

\* the keyword arguments and sort keys the collection is queried with
SpecKwargs == {(<<"title">> :> PyStr(<<"a">>))}
SpecKeys == {<<"-", "date">>}

\* reading self._pages alone
FlatPages_pages ==
    \E order \in Orders :
        \E a \in {property_pages(order)} :
            /\ Commit(a)
            /\ op' = [name |-> "_pages", args |-> <<>>]
            /\ ret' = a.r

\* FlatPages.__iter__
FlatPages_iter ==
    \E order \in Orders :
        \E a \in {property_pages(order)} :
            /\ Commit(a)
            /\ op' = [name |-> "__iter__", args |-> <<>>]
            /\ IF a.r.k = "raise" THEN ret' = a.r
               ELSE \E vorder \in Perms(DOMAIN a.r.v) :
                        ret' = Ok(itervalues(a.r.v, vorder))

\* get with self._pages read inside the try block and every error caught
get_swallow(a, path, default) ==
    IF a.r.k = "raise" THEN Ok(default)
    ELSE IF path \in DOMAIN a.r.v THEN Ok(a.r.v[path])
    ELSE Ok(default)

\* FlatPages.get(path, default)
get(a, path, default) ==
    IF a.r.k = "raise" THEN a.r
    ELSE IF path \in DOMAIN a.r.v THEN Ok(a.r.v[path])
    ELSE Ok(default)

FlatPages_get ==
    \E order \in Orders, path \in GetPaths :
        \E a \in {property_pages(order)} :
            /\ Commit(a)
            /\ op' = [name |-> "get", args |-> <<path, PyNone>>]
            /\ ret' = get(a, path, PyNone)

\* FlatPages.get_or_404(path)
get_or_404(a, path) ==
    LET Found(page) ==
            IF page.k = "raise" THEN page
            ELSE IF page.v = PyNone
            THEN Raise("NotFound", "404", path, "")
            ELSE page
    IN  Found(get(a, path, PyNone))

FlatPages_get_or_404 ==
    \E order \in Orders, path \in GetPaths :
        \E a \in {property_pages(order)} :
            /\ Commit(a)
            /\ op' = [name |-> "get_or_404", args |-> <<path>>]
            /\ ret' = get_or_404(a, path)

\* reload clearing the file cache as well
FlatPages_reload_clear ==
    /\ built' = FALSE
    /\ pages' = <<>>
    /\ forgotten' = IF built THEN <<DOMAIN pages>> ELSE <<>>
    /\ file_cache' = [f \in Files |-> <<>>]
    /\ op' = [name |-> "reload", args |-> <<>>]
    /\ ret' = Ok(PyNone)
    /\ loads' = <<>>
    /\ walked' = FALSE
    /\ walks' = 0
    /\ pc' = [t \in Threads |-> IF pc[t] = "func" THEN "stale" ELSE pc[t]]
    /\ UNCHANGED <<fs, nextId, changes, plist, qry, hist>>

\* FlatPages.reload: del self.__dict__['_pages'], a KeyError being ignored
FlatPages_reload ==
    /\ built' = FALSE
    /\ pages' = <<>>
    /\ forgotten' = IF built THEN <<DOMAIN pages>> ELSE <<>>
    /\ op' = [name |-> "reload", args |-> <<>>]
    /\ ret' = Ok(PyNone)
    /\ loads' = <<>>
    /\ walked' = FALSE
    /\ walks' = 0
    /\ pc' = [t \in Threads |-> IF pc[t] = "func" THEN "stale" ELSE pc[t]]
    /\ UNCHANGED <<fs, file_cache, nextId, changes, plist, qry, hist>>

\* FlatPages.order_by(key)
FlatPages_order_by ==
    \E order \in Orders, key \in SpecKeys :
        \E a \in {property_pages(order)} :
            /\ Commit(a)
            /\ op' = [name |-> "order_by", args |-> <<key>>]
            /\ IF a.r.k = "raise" THEN ret' = a.r
               ELSE \E vorder \in Perms(DOMAIN a.r.v) :
                        ret' = order_by(itervalues(a.r.v, vorder), key)

\* FlatPages.filter(negate, **kwargs) and FlatPages.exclude(**kwargs), which
\* is self.filter(negate=True, **kwargs)
FlatPages_filter_(negate, name) ==
    \E order \in Orders, kwargs \in SpecKwargs :
        \E a \in {property_pages(order)} :
            /\ Commit(a)
            /\ op' = [name |-> name, args |-> <<negate, kwargs>>]
            /\ IF a.r.k = "raise" THEN ret' = a.r
               ELSE \E vorder \in Perms(DOMAIN a.r.v), korder \in Perms(DOMAIN kwargs) :
                        ret' = filter(itervalues(a.r.v, vorder), negate, kwargs, korder)

FlatPages_filter == FlatPages_filter_(FALSE, "filter")

FlatPages_exclude == FlatPages_filter_(TRUE, "exclude")

(***************************************************************************)
(* The environment: files are written (created or modified, with any       *)
(* modification time) and removed.                                         *)
(***************************************************************************)
EnvStep(name, f) ==
    /\ changes < MaxChanges
    /\ changes' = changes + 1
    /\ op' = [name |-> name, args |-> <<f>>]
    /\ ret' = Ok(PyNone)
    /\ loads' = <<>>
    /\ walked' = FALSE
    /\ UNCHANGED <<file_cache, built, pages, nextId, forgotten, plist, qry, hist,
                   pc, walks>>

FileWrite ==
    \E f \in Changing : \E mtime \in MtimesOf(f), text \in TextsOf(f) :
        /\ fs[f] # <<mtime, text>>
        /\ fs' = [fs EXCEPT ![f] = <<mtime, text>>]
        /\ EnvStep("write", f)

FileRemove ==
    \E f \in Changing :
        /\ Present(fs, f)
        /\ fs' = [fs EXCEPT ![f] = <<>>]
        /\ EnvStep("remove", f)

Init ==
    /\ fs = [f \in Files |-> IF f = FB THEN <<1, TGood>> ELSE <<>>]
    /\ file_cache = [f \in Files |-> <<>>]
    /\ built = FALSE
    /\ pages = <<>>
    /\ nextId = 1
    /\ op = [name |-> "__init__", args |-> <<>>]
    /\ ret = Ok(PyNone)
    /\ loads = <<>>
    /\ walked = FALSE
    /\ changes = 0
    /\ forgotten = <<>>
    /\ plist = <<>>
    /\ qry = [kind |-> "none"]
    /\ hist = <<>>
    /\ pc = [t \in Threads |-> "idle"]
    /\ walks = 0

Next ==
    \/ FlatPages_pages
    \/ FlatPages_iter
    \/ FlatPages_get
    \/ FlatPages_get_or_404
    \/ FlatPages_reload
    \/ FlatPages_order_by
    \/ FlatPages_filter
    \/ FlatPages_exclude
    \/ FileWrite
    \/ FileRemove

Spec == Init /\ [][Next]_vars

(***************************************************************************)
(* PageList queries as pure functions: a PageList of pages drawn from a    *)
(* pool and one query are fixed initially, and the calls are applied.      *)
(***************************************************************************)
Q1 == Page(1, <<"p", "1">>,
           <<"date: 0001-01-02", "\n", "title: a", "\n", "tags: [x, Y]">>, <<"Body">>)
Q2 == Page(2, <<"p", "2">>,
           <<"date: 0001-01-02", "\n", "title: A", "\n", "tags: 5">>, <<"Body">>)
Q3 == Page(3, <<"p", "3">>, <<"date: 0001-01-01", "\n", "title: b">>, <<"Body">>)
Q4 == Page(4, <<"p", "4">>, <<>>, <<"Body">>)
Q5 == Page(5, <<"p", "5">>, <<"- 1">>, <<>>)
QPool == {Q1, Q2, Q3, Q4, Q5}

\* the predicates a query draws its keyword arguments from
QPreds ==
    (<<"title">> :> PyStr(<<"a">>))
    @@ (<<"title", "__", "exact">> :> PyStr(<<"b">>))
    @@ (<<"title", "__", "bogus">> :> PyStr(<<"a">>))
    @@ (<<"tags", "__", "contains">> :> PyStr(<<"x">>))
    @@ (<<"title", "__", "in">> :> PyList(<<PyStr(<<"a">>), PyStr(<<"b">>)>>))
    @@ (<<"date", "__", "isnull">> :> PyBool(TRUE))
    @@ (<<"title", "__", "iexact">> :> PyStr(<<"a">>))
    @@ (<<"tags", "__", "icontains">> :> PyStr(<<"y">>))

QKwargs ==
    {[key \in K |-> QPreds[key]] : K \in {K \in SUBSET DOMAIN QPreds : Cardinality(K) <= 2}}

QKeys == {<<"date">>, <<"title">>}

Queries ==
    {[kind |-> "kwargs", kwargs |-> kw, key |-> <<>>] : kw \in QKwargs}
    \cup {[kind |-> "key", kwargs |-> <<>>, key |-> key] : key \in QKeys}

QStep(call, result) ==
    /\ call \notin DOMAIN hist
    /\ hist' = (call :> result) @@ hist
    /\ UNCHANGED <<fs, file_cache, built, pages, nextId, op, ret, loads, walked,
                   changes, forgotten, plist, qry, pc, walks>>

\* self.filter(**kwargs)
PageList_filter ==
    /\ qry.kind = "kwargs"
    /\ \E korder \in Perms(DOMAIN qry.kwargs) :
           QStep("filter", filter(plist, FALSE, qry.kwargs, korder))

\* self.filter(negate=True, **kwargs)
PageList_exclude ==
    /\ qry.kind = "kwargs"
    /\ \E korder \in Perms(DOMAIN qry.kwargs) :
           QStep("exclude", filter(plist, TRUE, qry.kwargs, korder))

\* self.order_by(key)
PageList_order_by ==
    /\ qry.kind = "key"
    /\ QStep("order_by", order_by(plist, qry.key))

\* self.order_by('-' + key)
PageList_order_by_desc ==
    /\ qry.kind = "key"
    /\ QStep("-order_by", order_by(plist, <<"-">> \o qry.key))

QInit ==
    /\ fs = [f \in Files |-> IF f = FB THEN <<1, TGood>> ELSE <<>>]
    /\ file_cache = [f \in Files |-> <<>>]
    /\ built = FALSE
    /\ pages = <<>>
    /\ nextId = 1
    /\ op = [name |-> "__init__", args |-> <<>>]
    /\ ret = Ok(PyNone)
    /\ loads = <<>>
    /\ walked = FALSE
    /\ changes = 0
    /\ forgotten = <<>>
    /\ plist \in UNION {[1..n -> QPool] : n \in 0..MaxLen}
    /\ qry \in Queries
    /\ hist = <<>>
    /\ pc = [t \in Threads |-> "idle"]
    /\ walks = 0

QNext ==
    \/ PageList_filter
    \/ PageList_exclude
    \/ PageList_order_by
    \/ PageList_order_by_desc

QSpec == QInit /\ [][QNext]_vars

(***************************************************************************)
(* Threads reading self._pages of one FlatPages object.  The read is       *)
(* werkzeug.cached_property.__get__: look '_pages' up in the instance      *)
(* __dict__; when it is missing, call the function and store its value.    *)
(* No lock is taken, so threads may run between the two steps.             *)
(***************************************************************************)
\* the trees the threads find
CTrees ==
    {[f \in Files |-> IF f = FB THEN <<1, TGood>>
                      ELSE IF f = FA THEN a ELSE d] :
        a \in {<<>>, <<1, TGood>>}, d \in {<<>>, <<1, TGood>>, <<1, TBytes>>}}

\* value = obj.__dict__.get('_pages', _missing): a thread finds the cached
\* mapping and returns it, or finds it missing and goes on to the walk
Thread_lookup(t) ==
    /\ pc[t] = "idle"
    /\ op' = [name |-> "_pages", args |-> <<t>>]
    /\ loads' = <<>>
    /\ walked' = FALSE
    /\ IF built
       THEN /\ ret' = Ok(pages)
            /\ UNCHANGED pc
       ELSE /\ ret' = Ok(PyNone)
            /\ pc' = [pc EXCEPT ![t] = "func"]
    /\ UNCHANGED <<fs, file_cache, built, pages, nextId, changes, forgotten,
                   plist, qry, hist, walks>>

\* value = self.func(obj); obj.__dict__['_pages'] = value: the thread walks
\* the tree and, when the walk raised nothing, stores the mapping
Thread_func(t) ==
    /\ pc[t] \in {"func", "stale"}
    /\ \E order \in Perms(Names) :
           \E a \in {pages_fget(order)} :
               /\ file_cache' = a.file_cache
               /\ nextId' = a.nextId
               /\ loads' = a.loads
               /\ ret' = a.r
               /\ IF a.built
                  THEN built' = TRUE /\ pages' = a.pages
                  ELSE UNCHANGED <<built, pages>>
               /\ walks' = IF a.built /\ pc[t] = "func" THEN walks + 1 ELSE walks
    /\ walked' = TRUE
    /\ op' = [name |-> "_pages", args |-> <<t>>]
    /\ pc' = [pc EXCEPT ![t] = "idle"]
    /\ UNCHANGED <<fs, changes, forgotten, plist, qry, hist>>

CInit ==
    /\ fs \in CTrees
    /\ file_cache = [f \in Files |-> <<>>]
    /\ built = FALSE
    /\ pages = <<>>
    /\ nextId = 1
    /\ op = [name |-> "__init__", args |-> <<>>]
    /\ ret = Ok(PyNone)
    /\ loads = <<>>
    /\ walked = FALSE
    /\ changes = 0
    /\ forgotten = <<>>
    /\ plist = <<>>
    /\ qry = [kind |-> "none"]
    /\ hist = <<>>
    /\ pc = [t \in Threads |-> "idle"]
    /\ walks = 0

CNext ==
    \/ \E t \in Threads : Thread_lookup(t)
    \/ \E t \in Threads : Thread_func(t)
    \/ FlatPages_reload

CSpec == CInit /\ [][CNext]_vars

(***************************************************************************)
(* FlatPages._parse as a pure function: a text is fixed initially and      *)
(* parsed, and parsed again.                                               *)
(***************************************************************************)
\* the symbols of a text: newline, a blank, and two runs of other characters
Symbols == {"\n", " ", "m", "b"}

PTexts == UNION {[1..n -> Symbols] : n \in 0..MaxText}

\* self._parse(string, path); the call makes the Page object number id
FlatPages_parse ==
    /\ qry.kind = "text"
    /\ \E id \in 1..2 : QStep(id, Ok(parse(qry.text, <<"p">>, id)))

PInit ==
    /\ fs = [f \in Files |-> IF f = FB THEN <<1, TGood>> ELSE <<>>]
    /\ file_cache = [f \in Files |-> <<>>]
    /\ built = FALSE
    /\ pages = <<>>
    /\ nextId = 1
    /\ op = [name |-> "__init__", args |-> <<>>]
    /\ ret = Ok(PyNone)
    /\ loads = <<>>
    /\ walked = FALSE
    /\ changes = 0
    /\ forgotten = <<>>
    /\ plist = <<>>
    /\ qry \in {[kind |-> "text", text |-> t] : t \in PTexts}
    /\ hist = <<>>
    /\ pc = [t \in Threads |-> "idle"]
    /\ walks = 0

PNext == FlatPages_parse

PSpec == PInit /\ [][PNext]_vars

(***************************************************************************)
(* Vocabulary of the properties.                                           *)
(***************************************************************************)
\* the operations that read self._pages
AccessOps == {"_pages", "__iter__", "get", "get_or_404", "order_by", "filter", "exclude"}

\* a _load_file call that found an entry stored with the mtime it observed
Hit(e) == Len(e.cached) # 0 /\ e.cached[2] = e.mtime

\* a file of the tree whose name ends with ".h", and its logical path: the
\* directory segments and the name without its last two characters, joined
\* with "/"
IsPageFile(f) ==
    LET n == f[Len(f)]
    IN  Len(n) >= 2 /\ n[Len(n) - 1] = "." /\ n[Len(n)] = "h"

LogicalPath(f) ==
    LET n == f[Len(f)]
    IN  Join(Append(SubSeq(f, 1, Len(f) - 1), SubSeq(n, 1, Len(n) - 2)), "/")

ExpectedPaths == {LogicalPath(f) : f \in {g \in Files : Present(fs, g) /\ IsPageFile(g)}}

\* the metadata block decodes to a present value that is no mapping
BadYaml(page) ==
    LET m == YamlLoad(page.meta_yaml) IN m.truthy /\ m.t # "dict"

\* the last operation walked the tree and the walk raised
BuildFailed ==
    walked /\ Len(loads) > 0 /\ loads[Len(loads)].exc.k = "raise"

Values(d) == {d[x] : x \in DOMAIN d}

(***************************************************************************)
(* C1.  Cache hit: a _load_file call that finds an entry for the filename  *)
(* stored with the modification time it observes returns the Page object   *)
(* of the entry, opens and parses nothing and leaves the entry as it was.  *)
(***************************************************************************)
C1_CacheHit ==
    \A i \in 1..Len(loads) :
        Hit(loads[i]) =>
            /\ loads[i].page = loads[i].cached[1]
            /\ ~loads[i].read
            /\ ~loads[i].parsed
            /\ loads[i].exc.k = "ok"
            /\ loads[i].after = loads[i].cached
            /\ file_cache[loads[i].filename] = loads[i].cached
            /\ built => pages[loads[i].path] = loads[i].cached[1]

\* a hit in a walk that follows an earlier build and a reload
C1_Witness ==
    /\ forgotten # <<>>
    /\ \E i \in 1..Len(loads) : Hit(loads[i])

(***************************************************************************)
(* C2.  A walk that builds the mapping gives it exactly the logical paths  *)
(* of the page files then in the tree as keys, loads each of these files   *)
(* once, and reads and parses none whose modification time is the one      *)
(* stored at its last load.                                                *)
(***************************************************************************)
C2_Rebuild ==
    (walked /\ built) =>
        /\ DOMAIN pages = ExpectedPaths
        /\ {loads[i].path : i \in 1..Len(loads)} = ExpectedPaths
        /\ Len(loads) = Cardinality(ExpectedPaths)
        /\ \A i \in 1..Len(loads) :
               Hit(loads[i]) => ~loads[i].read /\ ~loads[i].parsed

\* a rebuild after a reload whose keys differ from those of the mapping the
\* reload discarded, and in which a file was taken from the cache
C2_Witness ==
    /\ walked /\ built
    /\ forgotten # <<>>
    /\ DOMAIN pages # forgotten[1]
    /\ \E i \in 1..Len(loads) : Hit(loads[i])

(***************************************************************************)
(* C3.  reload leaves the file cache as it was.                            *)
(***************************************************************************)
C3_ReloadKeepsCache ==
    [][op'.name = "reload" => file_cache' = file_cache]_vars

\* a reload that discarded a built mapping while the cache held a Page
C3_Witness ==
    /\ op.name = "reload"
    /\ forgotten # <<>>
    /\ \E f \in Files : Len(file_cache[f]) # 0

(***************************************************************************)
(* C4.  While the mapping is built, every access uses it as it is: no      *)
(* walk, no _load_file call, the mapping and the file cache unchanged, and *)
(* the result taken from that mapping, whatever the tree holds by then.    *)
(***************************************************************************)
C4_NoRescan ==
    [][(built /\ op'.name \in AccessOps) =>
          /\ built' /\ pages' = pages
          /\ ~walked' /\ loads' = <<>>
          /\ file_cache' = file_cache /\ nextId' = nextId
          /\ op'.name = "_pages" => ret' = Ok(pages)
          /\ op'.name = "__iter__" => ret'.k = "ok" /\ Range(ret'.v) = Values(pages)
          /\ op'.name = "get" =>
                 /\ ret'.k = "ok"
                 /\ op'.args[1] \in DOMAIN pages => ret'.v = pages[op'.args[1]]
                 /\ op'.args[1] \notin DOMAIN pages => ret'.v = op'.args[2]
          /\ (op'.name \in {"order_by", "filter", "exclude"} /\ ret'.k = "ok") =>
                 Range(ret'.v) \subseteq Values(pages)
      ]_vars

\* an access served from the built mapping after the tree has changed
C4_Witness ==
    /\ built /\ ~walked
    /\ op.name = "get"
    /\ DOMAIN pages # ExpectedPaths

C10_GetDistinguishes ==
    /\ op.name = "get" =>
           IF BuildFailed
           THEN ~built /\ ret = loads[Len(loads)].exc
           ELSE /\ built /\ ret.k = "ok"
                /\ op.args[1] \in DOMAIN pages => ret.v = pages[op.args[1]]
                /\ op.args[1] \notin DOMAIN pages => ret.v = op.args[2]
    /\ op.name = "get_or_404" =>
           IF BuildFailed
           THEN ~built /\ ret = loads[Len(loads)].exc /\ ret.exc # "NotFound"
           ELSE /\ built
                /\ op.args[1] \in DOMAIN pages => ret = Ok(pages[op.args[1]])
                /\ op.args[1] \notin DOMAIN pages =>
                       ret.k = "raise" /\ ret.exc = "NotFound"

\* get_or_404 on a collection whose build failed
C10_Witness ==
    /\ op.name = "get_or_404"
    /\ BuildFailed

(***************************************************************************)
(* Vocabulary of the query properties.                                     *)
(***************************************************************************)
\* the predicate of a keyword argument is true of the page
Holds(page, key, value) ==
    LET r == CallFilter(SplitField(key)[2], page, SplitField(key)[1], value)
    IN  r.k = "ok" /\ r.v

\* the keyword arguments are one exact-predicate
SingleExact ==
    /\ qry.kind = "kwargs"
    /\ Cardinality(DOMAIN qry.kwargs) = 1
    /\ \A key \in DOMAIN qry.kwargs : SplitField(key)[2] = <<"exact">>

\* every page of the list has mapping metadata that defines `date`
AllDefineDate ==
    \A i \in 1..Len(plist) :
        /\ ~BadYaml(plist[i])
        /\ YamlLoad(plist[i].meta_yaml).t = "dict"
        /\ <<"date">> \in DOMAIN YamlLoad(plist[i].meta_yaml).d

DateOf(page) == YamlLoad(page.meta_yaml).d[<<"date">>].i

\* the index of the first occurrence of x in seq
Pos(seq, x) == CHOOSE i \in 1..Len(seq) : seq[i] = x /\ \A j \in 1..(i - 1) : seq[j] # x

NoDup(seq) == \A i, j \in 1..Len(seq) : i # j => seq[i] # seq[j]

\* the operator names the filter call accepts in a key
Supported ==
    {<<"exact">>, <<"isnull">>, <<"contains">>, <<"in">>, <<"in_">>, <<"iexact">>,
     <<"icontains">>}

\* the operator a key names: what follows its first "__", else exact
OperatorOf(key) ==
    IF \A i \in 1..Len(key) : key[i] # "__" THEN <<"exact">>
    ELSE SubSeq(key, (CHOOSE i \in 1..Len(key) :
                          key[i] = "__" /\ \A j \in 1..(i - 1) : key[j] # "__") + 1,
                Len(key))

UnknownOperatorError(r) ==
    r.k = "raise" /\ r.exc = "ValueError" /\ r.msg = "Unknown operator"

(***************************************************************************)
(* C6.  OR semantics: a filter call with negate false and at least one     *)
(* predicate that returns, returns exactly the pages of the list for which *)
(* at least one predicate is true.                                         *)
(***************************************************************************)
C6_FilterOr ==
    ("filter" \in DOMAIN hist /\ DOMAIN qry.kwargs # {} /\ hist["filter"].k = "ok") =>
        Range(hist["filter"].v) =
            {page \in Range(plist) :
                \E key \in DOMAIN qry.kwargs : Holds(page, key, qry.kwargs[key])}

\* two exact-predicates on title with different values, over a list holding
\* a page matching the one, a page matching the other and a page matching
\* neither: the result holds the first two only
C6_Witness ==
    /\ "filter" \in DOMAIN hist
    /\ DOMAIN qry.kwargs = {<<"title">>, <<"title", "__", "exact">>}
    /\ hist["filter"].k = "ok"
    /\ Range(hist["filter"].v) = {Q1, Q3}
    /\ Range(plist) # {Q1, Q3}

(***************************************************************************)
(* C7.  For one exact-predicate, the negated filter and the filter return  *)
(* complements within the list: disjoint, and together every page of it.   *)
(***************************************************************************)
C7_ExcludeComplement ==
    ("filter" \in DOMAIN hist /\ "exclude" \in DOMAIN hist /\ SingleExact) =>
        /\ hist["filter"].k = "ok" <=> hist["exclude"].k = "ok"
        /\ hist["filter"].k = "ok" =>
               /\ Range(hist["filter"].v) \cap Range(hist["exclude"].v) = {}
               /\ Range(hist["filter"].v) \cup Range(hist["exclude"].v) = Range(plist)

\* both calls made and returned, each with a page
C7_Witness ==
    /\ "filter" \in DOMAIN hist /\ "exclude" \in DOMAIN hist /\ SingleExact
    /\ hist["filter"].k = "ok" /\ hist["exclude"].k = "ok"
    /\ hist["filter"].v # <<>> /\ hist["exclude"].v # <<>>

(***************************************************************************)
(* C8 as stated: for pages that all define date, order_by("-date") is the  *)
(* reverse of order_by("date"), equal dates included.                      *)
(***************************************************************************)
C8_ExactReverse ==
    ({"order_by", "-order_by"} \subseteq DOMAIN hist /\ qry.key = <<"date">>
        /\ AllDefineDate) =>
        /\ hist["order_by"].k = "ok" /\ hist["-order_by"].k = "ok"
        /\ hist["-order_by"].v = Reverse(hist["order_by"].v)

(***************************************************************************)
(* C8 as amended.  For pages that all define date, both calls return; the  *)
(* descending result is the reverse of the ascending one when the dates    *)
(* are pairwise distinct; pages with equal dates keep their order in the   *)
(* list in both results.                                                   *)
(***************************************************************************)
C8_ReverseDistinct ==
    ({"order_by", "-order_by"} \subseteq DOMAIN hist /\ qry.key = <<"date">>
        /\ AllDefineDate) =>
        /\ hist["order_by"].k = "ok" /\ hist["-order_by"].k = "ok"
        /\ (\A i, j \in 1..Len(plist) : i # j => DateOf(plist[i]) # DateOf(plist[j])) =>
               hist["-order_by"].v = Reverse(hist["order_by"].v)
        /\ NoDup(plist) =>
               \A i, j \in 1..Len(plist) :
                   (i < j /\ DateOf(plist[i]) = DateOf(plist[j])) =>
                       /\ Pos(hist["order_by"].v, plist[i]) < Pos(hist["order_by"].v, plist[j])
                       /\ Pos(hist["-order_by"].v, plist[i]) < Pos(hist["-order_by"].v, plist[j])

\* both orders of a list holding two pages with equal dates and a third
C8_Witness ==
    /\ {"order_by", "-order_by"} \subseteq DOMAIN hist /\ qry.key = <<"date">>
    /\ plist = <<Q1, Q3, Q2>>
    /\ hist["order_by"].v = <<Q3, Q1, Q2>>
    /\ hist["-order_by"].v = <<Q1, Q2, Q3>>

(***************************************************************************)
(* C9 as stated: a filter call, negated or not, on any list, fails with    *)
(* the unknown-operator error naming the operator when a key names an      *)
(* unsupported operator, and raises that error only then.                  *)
(***************************************************************************)
C9_UnknownOperator ==
    \A call \in {"filter", "exclude"} \cap DOMAIN hist :
        LET unknown == {OperatorOf(key) : key \in DOMAIN qry.kwargs} \ Supported
        IN  /\ unknown # {} =>
                   UnknownOperatorError(hist[call]) /\ hist[call].arg \in unknown
            /\ UnknownOperatorError(hist[call]) => unknown # {}

(***************************************************************************)
(* Vocabulary of the ordering properties.                                  *)
(***************************************************************************)
\* the metadata mapping of a page whose metadata block is no bad one
MetaOf(page) ==
    LET m == YamlLoad(page.meta_yaml) IN IF m.t = "dict" THEN m.d ELSE <<>>

NoBadYaml == \A i \in 1..Len(plist) : ~BadYaml(plist[i])

\* in seq, every page lacking the field stands before every page defining it
LackingFirst(seq, field) ==
    \A i, j \in 1..Len(seq) :
        (field \notin DOMAIN MetaOf(seq[i]) /\ field \in DOMAIN MetaOf(seq[j])) => i < j

\* in seq, every page lacking the field stands after every page defining it
LackingLast(seq, field) ==
    \A i, j \in 1..Len(seq) :
        (field \notin DOMAIN MetaOf(seq[i]) /\ field \in DOMAIN MetaOf(seq[j])) => j < i

(***************************************************************************)
(* C11 as stated: for any list of pages with mapping metadata and any      *)
(* field, order_by(field) returns the pages lacking the field before all   *)
(* pages defining it, and order_by("-" + field) returns them after all.    *)
(***************************************************************************)
C11_MissingFirst ==
    ({"order_by", "-order_by"} \subseteq DOMAIN hist /\ NoBadYaml) =>
        /\ hist["order_by"].k = "ok" /\ hist["-order_by"].k = "ok"
        /\ LackingFirst(hist["order_by"].v, qry.key)
        /\ LackingLast(hist["-order_by"].v, qry.key)

(***************************************************************************)
(* Vocabulary of the parsing property.                                     *)
(***************************************************************************)
\* t[i+1..j] is a line of t: it lies between two newlines or ends of t
LineAt(t, i, j) ==
    /\ i = 0 \/ t[i] = "\n"
    /\ j = Len(t) \/ t[j + 1] = "\n"
    /\ \A k \in (i + 1)..j : t[k] # "\n"

\* t[i+1..j] is a blank line of t: a line of whitespace only
BlankAt(t, i, j) == LineAt(t, i, j) /\ \A k \in (i + 1)..j : t[k] \in WS

HasBlank(t) == \E i \in 0..Len(t) : \E j \in i..Len(t) : BlankAt(t, i, j)

\* where the first blank line of t starts, when t has one
FirstBlank(t) ==
    CHOOSE i \in 0..Len(t) :
        /\ \E j \in i..Len(t) : BlankAt(t, i, j)
        /\ \A h \in 0..(i - 1) : \A j \in h..Len(t) : ~BlankAt(t, h, j)

\* the text before position i, less the newline that ends it
Before(t, i) == IF i = 0 THEN <<>> ELSE SubSeq(t, 1, i - 1)

\* the text after position j, less the newline that starts it
After(t, j) == IF j >= Len(t) THEN <<>> ELSE SubSeq(t, j + 2, Len(t))

(***************************************************************************)
(* C12.  Parsing a text gives as metadata block the lines before its first *)
(* blank line and as body the lines after that blank line, the blank line  *)
(* in neither; a text without a blank line is all metadata and its body is *)
(* empty; parsing the same text again gives the same block and body.       *)
(***************************************************************************)
C12_ParseSplits ==
    qry.kind = "text" =>
        /\ \A c \in DOMAIN hist :
               /\ hist[c].k = "ok"
               /\ IF HasBlank(qry.text)
                  THEN \E j \in FirstBlank(qry.text)..Len(qry.text) :
                           /\ BlankAt(qry.text, FirstBlank(qry.text), j)
                           /\ hist[c].v.meta_yaml = Before(qry.text, FirstBlank(qry.text))
                           /\ hist[c].v.body = After(qry.text, j)
                  ELSE /\ hist[c].v.meta_yaml = qry.text
                       /\ hist[c].v.body = <<>>
        /\ \A c, d \in DOMAIN hist :
               /\ hist[c].v.meta_yaml = hist[d].v.meta_yaml
               /\ hist[c].v.body = hist[d].v.body

\* a text of a metadata line, a line holding one blank, and a body line,
\* parsed twice
C12_Witness ==
    /\ qry.kind = "text"
    /\ qry.text = <<"m", "\n", " ", "\n", "b">>
    /\ DOMAIN hist = {1, 2}
    /\ hist[1].v.meta_yaml = <<"m">> /\ hist[1].v.body = <<"b">>

(***************************************************************************)
(* Vocabulary of the cache properties.                                     *)
(***************************************************************************)
\* a _load_file call that found an entry stored with another mtime
Stale(e) == Len(e.cached) # 0 /\ e.cached[2] # e.mtime

\* every Page object the state refers to
PageObjects ==
    {file_cache[f][1] : f \in {g \in Files : Len(file_cache[g]) # 0}}
    \cup Values(pages)
    \cup {loads[i].page : i \in {j \in 1..Len(loads) : loads[j].exc.k = "ok"}}
    \cup {loads[i].cached[1] : i \in {j \in 1..Len(loads) : Len(loads[j].cached) # 0}}

(***************************************************************************)
(* C13.  When a _load_file call returns, the entry of the filename holds   *)
(* the returned Page and the modification time the call observed.  An      *)
(* entry stored with another modification time is not returned: the call   *)
(* reads the file and returns a newly made Page object parsed from its     *)
(* present text, and the Page object of the old entry is as it was: one    *)
(* object never has two contents.                                          *)
(***************************************************************************)
C13_StaleReplaced ==
    /\ \A i \in 1..Len(loads) :
           /\ loads[i].exc.k = "ok" =>
                  /\ loads[i].after = <<loads[i].page, loads[i].mtime>>
                  /\ file_cache[loads[i].filename] = <<loads[i].page, loads[i].mtime>>
           /\ (loads[i].exc.k = "ok" /\ Stale(loads[i])) =>
                  /\ loads[i].read /\ loads[i].parsed
                  /\ loads[i].page.id # loads[i].cached[1].id
                  /\ loads[i].page.id < nextId
                  /\ loads[i].page.path = loads[i].path
                  /\ loads[i].page.meta_yaml =
                         parse(fs[loads[i].filename][2], <<>>, 0).meta_yaml
                  /\ loads[i].page.body = parse(fs[loads[i].filename][2], <<>>, 0).body
    /\ \A p, q \in PageObjects : p.id = q.id => p = q

\* a call that found an entry with another modification time and returned a
\* Page whose metadata block differs from that of the entry's Page
C13_Witness ==
    \E i \in 1..Len(loads) :
        /\ Stale(loads[i])
        /\ loads[i].exc.k = "ok"
        /\ loads[i].page.meta_yaml # loads[i].cached[1].meta_yaml

(***************************************************************************)
(* C14 as stated: of the walks that threads reading self._pages of one     *)
(* collection begin and end between two reloads, at most one builds the    *)
(* mapping.                                                                *)
(***************************************************************************)
C14_AtMostOnce == walks <= 1

\* the predicate of a keyword argument is evaluated and false of the page
Fails(page, key, value) ==
    LET r == CallFilter(SplitField(key)[2], page, SplitField(key)[1], value)
    IN  r.k = "ok" /\ ~r.v

(***************************************************************************)
(* C15.  Negation is per predicate: a filter call with negate true and at  *)
(* least one predicate that returns, returns exactly the pages of the list *)
(* for which at least one predicate is false.                              *)
(***************************************************************************)
C15_NegateEach ==
    ("exclude" \in DOMAIN hist /\ DOMAIN qry.kwargs # {} /\ hist["exclude"].k = "ok") =>
        Range(hist["exclude"].v) =
            {page \in Range(plist) :
                \E key \in DOMAIN qry.kwargs : Fails(page, key, qry.kwargs[key])}

\* two predicates on title over a list holding a page of which both are
\* true, which is left out, and a page of which one only is true, which is
\* returned
C15_Witness ==
    /\ "exclude" \in DOMAIN hist
    /\ DOMAIN qry.kwargs = {<<"title">>, <<"title", "__", "iexact">>}
    /\ hist["exclude"].k = "ok"
    /\ {Q1, Q2} \subseteq Range(plist)
    /\ Q2 \in Range(hist["exclude"].v)
    /\ Q1 \notin Range(hist["exclude"].v)

\* a is b with some of its elements left out
IsSubseq(a, b) ==
    \E f \in [1..Len(a) -> 1..Len(b)] :
        /\ \A i, j \in 1..Len(a) : i < j => f[i] < f[j]
        /\ \A i \in 1..Len(a) : b[f[i]] = a[i]

(***************************************************************************)
(* C16.  What a filter call returns, negated or not, is the list with some *)
(* of its pages left out: the pages stand in the order they have in the    *)
(* list, and no Page object stands in it twice, however many predicates    *)
(* are true of it.                                                         *)
(***************************************************************************)
C16_Subsequence ==
    \A call \in {"filter", "exclude"} \cap DOMAIN hist :
        hist[call].k = "ok" =>
            /\ IsSubseq(hist[call].v, plist)
            /\ NoDup(hist[call].v)

\* two predicates both true of the last page of a list of three, the middle
\* page being left out
C16_Witness ==
    /\ "filter" \in DOMAIN hist
    /\ DOMAIN qry.kwargs = {<<"title">>, <<"title", "__", "iexact">>}
    /\ plist = <<Q2, Q3, Q1>>
    /\ hist["filter"] = Ok(<<Q2, Q1>>)

\* the field a key names: what stands before its first "__"
FieldOf(key) ==
    IF \A i \in 1..Len(key) : key[i] # "__" THEN key
    ELSE SubSeq(key, 1, (CHOOSE i \in 1..Len(key) :
                             key[i] = "__" /\ \A j \in 1..(i - 1) : key[j] # "__") - 1)

\* the value of the field in the page's metadata, None when absent
FieldValue(page, field) ==
    IF field \in DOMAIN MetaOf(page) THEN MetaOf(page)[field] ELSE PyNone

\* the value is neither a string nor a sequence of strings
Mismatch(v) ==
    /\ v.t # "str"
    /\ ~(v.t = "list" /\ \A i \in 1..Len(v.l) : v.l[i].t = "str")

(***************************************************************************)
(* C17 as stated: a filter call, negated or not, whose predicates are all  *)
(* iexact or icontains, over pages with mapping metadata, returns; and the *)
(* filter returns no page for which every predicate's field holds a value  *)
(* that is neither a string nor a sequence of strings.                     *)
(***************************************************************************)
C17_NoRaiseOnMismatch ==
    \A call \in {"filter", "exclude"} \cap DOMAIN hist :
        (/\ NoBadYaml
         /\ DOMAIN qry.kwargs # {}
         /\ \A key \in DOMAIN qry.kwargs :
                OperatorOf(key) \in {<<"iexact">>, <<"icontains">>}) =>
            /\ hist[call].k = "ok"
            /\ call = "filter" =>
                   \A i \in 1..Len(hist[call].v) :
                       \E key \in DOMAIN qry.kwargs :
                           ~Mismatch(FieldValue(hist[call].v[i], FieldOf(key)))

(***************************************************************************)
(* C18.  In a built mapping every key is the path field of the Page under  *)
(* it, and is the logical path of a page file: its directory segments and  *)
(* its name less the extension, joined with "/"; the Page is the one the   *)
(* file cache holds for that file, Pages taken from the cache included.    *)
(***************************************************************************)
C18_KeyIsPath ==
    built =>
        \A p \in DOMAIN pages :
            /\ pages[p].path = p
            /\ \E f \in Files :
                   /\ IsPageFile(f)
                   /\ LogicalPath(f) = p
                   /\ Len(file_cache[f]) # 0
                   /\ file_cache[f][1] = pages[p]

\* a mapping rebuilt after a reload, holding under the path of the file in
\* the subdirectory the Page taken from the cache
C18_Witness ==
    /\ built /\ walked
    /\ forgotten # <<>>
    /\ \E i \in 1..Len(loads) :
           /\ Hit(loads[i])
           /\ loads[i].filename = FDA
           /\ loads[i].path = <<"d", ".", "h", "/", "a">>
           /\ loads[i].path \in DOMAIN pages
           /\ pages[loads[i].path] = loads[i].cached[1]

(***************************************************************************)
(* C19.  A walk that raises leaves the collection unbuilt, with no mapping *)
(* and the error as the result of the access, and leaves in the file cache *)
(* the entries of the files it loaded before.  Every access to an unbuilt  *)
(* collection walks the tree anew, and in that walk a file whose entry has *)
(* the modification time observed is taken from the cache, not parsed.  An *)
(* entry of the file cache goes only by being replaced in a parse.         *)
(***************************************************************************)
C19_FailedBuild ==
    /\ [](BuildFailed =>
             /\ ~built /\ pages = <<>>
             /\ ret = loads[Len(loads)].exc
             /\ \A i \in 1..(Len(loads) - 1) :
                    /\ loads[i].exc.k = "ok"
                    /\ file_cache[loads[i].filename] = <<loads[i].page, loads[i].mtime>>)
    /\ [][(~built /\ op'.name \in AccessOps) =>
             /\ walked'
             /\ \A i \in 1..Len(loads') :
                    (/\ Len(file_cache[loads'[i].filename]) # 0
                     /\ file_cache[loads'[i].filename][2] = loads'[i].mtime) =>
                        /\ ~loads'[i].parsed
                        /\ loads'[i].page = file_cache[loads'[i].filename][1]
         ]_vars
    /\ [][\A f \in Files :
              Len(file_cache[f]) # 0 =>
                  /\ Len(file_cache'[f]) # 0
                  /\ file_cache'[f] # file_cache[f] =>
                         \E i \in 1..Len(loads') :
                             loads'[i].filename = f /\ loads'[i].parsed
         ]_vars

\* a walk that raised after it had taken from the cache a file that an
\* earlier walk had loaded, no mapping having been built
C19_Witness ==
    /\ BuildFailed
    /\ ~built
    /\ forgotten = <<>>
    /\ \E i \in 1..Len(loads) : Hit(loads[i])

(***************************************************************************)
(* C20.  A filter call without predicates, negated or not, returns the     *)
(* empty list, whatever the list holds.                                    *)
(***************************************************************************)
C20_NoPredicates ==
    (qry.kind = "kwargs" /\ DOMAIN qry.kwargs = {}) =>
        \A call \in {"filter", "exclude"} \cap DOMAIN hist : hist[call] = Ok(<<>>)

\* both calls made without predicates on a list of three pages, one of them
\* with a metadata block that is no mapping
C20_Witness ==
    /\ qry.kind = "kwargs" /\ DOMAIN qry.kwargs = {}
    /\ Len(plist) = 3 /\ Q5 \in Range(plist)
    /\ DOMAIN hist = {"filter", "exclude"}
    /\ hist["exclude"] = Ok(<<>>)

====
